---------------------------- MODULE Spec2Model ----------------------------
(***************************************************************************)
(* Watchdog around a blocking speech-recognition engine.                   *)
(*                                                                         *)
(* Two implementations are modelled:                                       *)
(*   - RecorderManager (enhanced_recorder.py): specification Spec, and     *)
(*     FairSpec (Spec plus the fairness of the loop thread and of time);   *)
(*     SpecHealth applies its health_check() to any supervisor state;      *)
(*   - the function-based enhanced_recorder_thread                         *)
(*     (recorder_thread_patch.py): specification SpecFn.                   *)
(* LanguageDetector (language_detector.py) is specification SpecLd: any    *)
(* sequence of detect_language and validate_transcription_language calls   *)
(* on one detector.                                                        *)
(*                                                                         *)
(* The engine (AudioToTextRecorder) is opaque: its constructor, text(),    *)
(* abort(), clear_audio_queue() and shutdown() may each return or raise,   *)
(* and text() may block for any time, also for ever.  These outcomes are   *)
(* chosen with \E.                                                         *)
(*                                                                         *)
(* Time is counted in ticks of 10 seconds.  A timestamp t of the code is   *)
(* kept as its age now - t, saturating one tick above the largest value    *)
(* it is compared with, so "now - t > d" is "age > d".                     *)
(*                                                                         *)
(* The ThreadPoolExecutor is kept as the number of its busy workers and    *)
(* of its queued work items.  Queued items of units the loop has given up  *)
(* are counted up to MaxQueue; a count of MaxQueue stands for "MaxQueue or *)
(* more", so taking one item from it leaves MaxQueue or MaxQueue - 1.      *)
(***************************************************************************)
EXTENDS Integers, Naturals, Sequences, FiniteSets, TLC

\* ------------------------------------------------------------ constants
\* self.transcription_timeout = 30.0 in ticks of 10 s
TranscriptionTimeout == 3
\* self.health_check_interval = 10.0 in ticks of 10 s
HealthCheckInterval == 1
\* self.max_consecutive_failures = 3
MaxConsecutiveFailures == 3
\* ThreadPoolExecutor(max_workers=2)
MaxWorkers == 2
\* transcription_timeout = 20.0 of enhanced_recorder_thread, in ticks of 10 s
FnTranscriptionTimeout == 2
\* max_retries = 3 of initialize_recorder_with_retry
MaxInitRetries == 3
\* queued abandoned work items are counted exactly below this bound
MaxQueue == 2
\* engine instances constructed and never shut down are counted exactly below this bound
MaxLive == 3
\* process_text (the callback) raises only while the counter is below this bound
MaxCallbackFailures == 4
\* health_check() is applied to failure counters up to this bound
MaxFailuresInput == 5
\* confidence_threshold=0.7, the default of validate_transcription_language, in tenths
DefaultThreshold == 7

VARIABLES
  \* ---- RecorderManager
  pc,                   \* position of run()
  recorder,             \* self.recorder: "None" or "Engine" (the current instance)
  eng_released,         \* shutdown() has returned normally on the current instance
  eng_shutdown_calls,   \* shutdown() invocations on the current instance
  stop_recorder,        \* self.stop_recorder
  consecutive_failures, \* self.consecutive_failures
  is_processing,        \* self.is_processing
  last_activity_age,    \* now - self.last_activity_time
  last_health_check_age,\* now - last_health_check
  current_time_age,     \* now - current_time, kept while a recovery started by the health check runs
  waited,               \* time spent in future.result(timeout=...)
  awaited,              \* the unit run() waits on: "none", "queued", "running"
  ab_running,           \* timed-out (abandoned) units still running on a worker
  q_old,                \* queued abandoned units bound to a replaced engine instance
  q_cur,                \* queued abandoned units bound to the current engine instance
  executor_shut,        \* executor.shutdown() has been called
  rec_from,             \* call site of the running recover_recorder(): "health" or "fail"
  \* ---- history of the RecorderManager run, read by the properties only
  h_unit,               \* last unit: counter at submission, outcome
  h_rec,                \* recoveries since the counter was last 0, and the last recovery
  h_cleanup_calls,      \* calls of cleanup()
  h_early_abandon,      \* a unit was given up before its deadline
  h_health,             \* last evaluation of health_check(): its result, and whether a
                        \* unit given up at its deadline was still running or queued then
  raised,               \* an exception has left run()
  h_started_after_shutdown, \* a queued unit began text() on an instance shutdown() was called on
  \* ---- enhanced_recorder_thread (recorder_thread_patch.py)
  fn_pc,                   \* position of enhanced_recorder_thread()
  fn_recorder,             \* recorder: "None" or "Engine"
  fn_stop_recorder,        \* stop_recorder
  fn_consecutive_failures, \* consecutive_failures
  fn_last_activity_age,    \* now - last_activity_time
  fn_current_time_age,     \* now - current_time, kept while a recovery started by the stall check runs
  fn_waited,               \* time spent in future.result(timeout=...)
  fn_awaited,              \* the unit the loop waits on: "none", "queued", "running"
  fn_ab_running,           \* timed-out units still running on a worker
  fn_attempt,              \* attempt of initialize_recorder_with_retry
  fn_rec_from,             \* caller of the running initialisation or recovery
  fn_tmp,                  \* the value read by a running "consecutive_failures += 1"
  fn_ret,                  \* the statement that "consecutive_failures += 1" belongs to
  fn_live_engines,         \* engine instances constructed and not shut down
  fn_executor_shut,        \* executor.shutdown() has been called
  \* ---- history of the enhanced_recorder_thread run, read by the properties only
  h_fn,                    \* unit timeouts in a row, and the recoveries their handler started
  h_fn_rec,                \* recover_recorder() has just returned True; its calls since the last submission
  \* ---- LanguageDetector (language_detector.py)
  ld_loaded,               \* self.lang_id is not None
  ld_last_confidence,      \* self.last_confidence, in tenths
  ld_detected,             \* language of the detection result the caller holds: a code or "None"
  ld_confidence,           \* confidence of the detection result the caller holds, in tenths
  ld_expected,             \* expected_language of the last validate_transcription_language()
  ld_threshold,            \* confidence_threshold of that call, in tenths
  ld_valid                 \* its result, "True" or "False"; "none" when it was not called
                           \* since the last detect_language()

rmVars == <<pc, recorder, eng_released, eng_shutdown_calls, stop_recorder,
            consecutive_failures, is_processing, last_activity_age,
            last_health_check_age, current_time_age, waited, awaited,
            ab_running, q_old, q_cur, executor_shut, rec_from,
            h_unit, h_rec, h_cleanup_calls, h_early_abandon, h_health, raised,
            h_started_after_shutdown>>

fnVars == <<fn_pc, fn_recorder, fn_stop_recorder, fn_consecutive_failures,
            fn_last_activity_age, fn_current_time_age, fn_waited, fn_awaited,
            fn_ab_running, fn_attempt, fn_rec_from, fn_tmp, fn_ret,
            fn_live_engines, fn_executor_shut, h_fn, h_fn_rec>>

ldVars == <<ld_loaded, ld_last_confidence, ld_detected, ld_confidence,
            ld_expected, ld_threshold, ld_valid>>

vars == <<rmVars, fnVars, ldVars>>

\* ------------------------------------------------------------ helpers
Min(a, b) == IF a < b THEN a ELSE b

\* an age one tick older, saturating at cap
Older(age, cap) == Min(age + 1, cap)

\* a saturating queue count after one more item
QAdd(q, n) == Min(q + n, MaxQueue)

\* the counts a saturating queue count can have after one item is taken
QTake(q) == IF q = MaxQueue THEN {MaxQueue, MaxQueue - 1} ELSE {q - 1}

RecPcs == {"rec_abort", "rec_clear", "rec_shutdown", "rec_init"}

\* ------------------------------------------------------------ RecorderManager
\* a health_check() whose stall test includes the deadline itself
health_check_AtDeadline(processing, activity_age, failures) ==
  IF processing /\ activity_age >= TranscriptionTimeout THEN FALSE
  ELSE IF failures >= MaxConsecutiveFailures THEN FALSE
  ELSE TRUE

\* health_check(): False when a unit is being processed for longer than the
\* timeout, or when the failure counter is at the threshold.
health_check(processing, activity_age, failures) ==
  IF processing /\ activity_age > TranscriptionTimeout THEN FALSE
  ELSE IF failures >= MaxConsecutiveFailures THEN FALSE
  ELSE TRUE

\* a threshold test that is off by one
ThresholdReached_Above(failures) == failures > MaxConsecutiveFailures

\* run(), line 158: the failure path starts a recovery at the threshold
ThresholdReached(failures) == failures >= MaxConsecutiveFailures

\* a successful unit that leaves the counter alone
FailuresAfterSuccess_Kept(failures) == failures

\* process_text_with_timeout, line 59: the counter after a successful unit
FailuresAfterSuccess(failures) == 0

\* an initialize_recorder that leaves the counter alone
FailuresAfterInit_Kept(failures) == failures

\* initialize_recorder, line 42: the counter after a successful construction
FailuresAfterInit(failures) == 0

\* process_text_with_timeout without its finally clause
ProcessingAfterUnit_Kept == is_processing

\* process_text_with_timeout, finally: the processing flag when it returns
ProcessingAfterUnit == FALSE

\* future.result called with a timeout of 0
DeadlineExpired_AtOnce(w) == w >= 0

\* future.result(timeout=self.transcription_timeout): the deadline has expired
DeadlineExpired(w) == w >= TranscriptionTimeout

\* a loop that goes on after a failed recovery
AfterFailedRecovery_GoesOn == "loop"

\* run(), lines 148-150 and 159-161: what the loop does when recover_recorder()
\* returned False ("break", and the finally clause calls cleanup)
AfterFailedRecovery == "cleanup"

\* h_rec when recover_recorder() is entered
RecEntered == [since_reset |-> Min(h_rec.since_reset + 1, 2), attempts |-> 0,
               raised |-> "none", result |-> "running"]

\* h_rec.since_reset follows the counter: it restarts when the counter is 0
SinceReset(failures, n) == IF failures = 0 THEN 0 ELSE n

\* an executor with a single worker
WorkerFree_SingleWorker(busy) == busy < 1

\* ThreadPoolExecutor(max_workers=2), line 30: a submitted unit starts at once
\* when fewer than max_workers units are running
WorkerFree(busy) == busy < MaxWorkers

\* a cleanup() without its try block
ExceptionCaught_NotInCleanup(method) ==
  method \in {"initialize_recorder", "process_text_with_timeout", "recover_recorder"}

\* the methods that call the engine inside "try: ... except Exception" and
\* return after logging: lines 34-47, 51-71, 76-92 and 173-178
ExceptionCaught(method) ==
  method \in {"initialize_recorder", "process_text_with_timeout",
              "recover_recorder", "cleanup"}

\* raised after an engine call of the method has raised: the exception leaves
\* run() when the method does not catch it (run() itself catches only
\* KeyboardInterrupt, lines 166-167)
Propagates(method) == raised \/ ~ExceptionCaught(method)

\* units given up at their deadline (lines 62-65) that are still running or queued
Abandoned == ab_running + q_old + q_cur

\* h_health when the loop evaluates health_check(), line 146
HealthEvaluated ==
  [result |-> IF health_check(is_processing, last_activity_age, consecutive_failures)
              THEN "healthy" ELSE "unhealthy",
   abandoned |-> Abandoned > 0]

\* recover_recorder(): "if self.recorder:" chooses the first step
RecFirstPc == IF recorder # "None" THEN "rec_abort" ELSE "rec_init"

InitRM ==
  /\ pc = "start"
  /\ recorder = "None"
  /\ eng_released = FALSE
  /\ eng_shutdown_calls = 0
  /\ stop_recorder = FALSE
  /\ consecutive_failures = 0
  /\ is_processing = FALSE
  /\ last_activity_age = 0
  /\ last_health_check_age = 0
  /\ current_time_age = 0
  /\ waited = 0
  /\ awaited = "none"
  /\ ab_running = 0
  /\ q_old = 0
  /\ q_cur = 0
  /\ executor_shut = FALSE
  /\ rec_from = "none"
  /\ h_unit = [cf_before |-> 0, outcome |-> "none"]
  /\ h_rec = [since_reset |-> 0, attempts |-> 0, raised |-> "none", result |-> "none"]
  /\ h_cleanup_calls = 0
  /\ h_early_abandon = FALSE
  /\ h_health = [result |-> "none", abandoned |-> FALSE]
  /\ raised = FALSE
  /\ h_started_after_shutdown = FALSE

\* stop(): sets the flag, from any thread, at any time
Stop ==
  /\ pc # "done"
  /\ ~stop_recorder
  /\ stop_recorder' = TRUE
  /\ UNCHANGED <<pc, recorder, eng_released, eng_shutdown_calls,
                 consecutive_failures, is_processing, last_activity_age,
                 last_health_check_age, current_time_age, waited, awaited,
                 ab_running, q_old, q_cur, executor_shut, rec_from,
                 h_unit, h_rec, h_cleanup_calls, h_early_abandon>>
  /\ UNCHANGED <<h_health, raised>>
  /\ UNCHANGED h_started_after_shutdown
  /\ UNCHANGED <<fnVars, ldVars>>

\* Ten seconds pass.  future.result(timeout) does not wait past its deadline.
Tick ==
  /\ pc # "done"
  /\ ~(pc = "wait" /\ DeadlineExpired(waited))
  /\ last_activity_age' = Older(last_activity_age, TranscriptionTimeout + 1)
  /\ last_health_check_age' = Older(last_health_check_age, HealthCheckInterval + 1)
  /\ current_time_age' = IF pc \in RecPcs /\ rec_from = "health"
                         THEN Older(current_time_age, HealthCheckInterval + 1)
                         ELSE current_time_age
  /\ waited' = IF pc = "wait" THEN waited + 1 ELSE waited
  /\ UNCHANGED <<pc, recorder, eng_released, eng_shutdown_calls, stop_recorder,
                 consecutive_failures, is_processing, awaited,
                 ab_running, q_old, q_cur, executor_shut, rec_from,
                 h_unit, h_rec, h_cleanup_calls, h_early_abandon>>
  /\ UNCHANGED <<h_health, raised>>
  /\ UNCHANGED h_started_after_shutdown
  /\ UNCHANGED <<fnVars, ldVars>>

\* run(), lines 134-138: the first initialize_recorder(); on failure run()
\* returns at once, before its try block.
InitialInit ==
  /\ pc = "start"
  /\ \E ok \in BOOLEAN :
       IF ok
       THEN /\ recorder' = "Engine"
            /\ consecutive_failures' = FailuresAfterInit(consecutive_failures)
            /\ last_health_check_age' = 0
            /\ pc' = "loop"
            /\ UNCHANGED raised
       ELSE /\ recorder' = recorder
            /\ consecutive_failures' = consecutive_failures + 1
            /\ last_health_check_age' = last_health_check_age
            /\ pc' = "done"
            /\ raised' = Propagates("initialize_recorder")
  /\ UNCHANGED <<eng_released, eng_shutdown_calls, stop_recorder,
                 is_processing, last_activity_age, current_time_age,
                 waited, awaited, ab_running, q_old, q_cur, executor_shut,
                 rec_from, h_unit, h_rec, h_cleanup_calls, h_early_abandon>>
  /\ UNCHANGED h_health
  /\ UNCHANGED h_started_after_shutdown
  /\ UNCHANGED <<fnVars, ldVars>>

\* run(), lines 141-151: the loop condition and the periodic health check
LoopTop ==
  /\ pc = "loop"
  /\ IF stop_recorder
     THEN /\ pc' = "cleanup"
          /\ UNCHANGED <<last_health_check_age, current_time_age, rec_from, h_rec, h_health>>
     ELSE IF last_health_check_age > HealthCheckInterval
     THEN /\ h_health' = HealthEvaluated
          /\ IF health_check(is_processing, last_activity_age, consecutive_failures)
             THEN /\ last_health_check_age' = 0
                  /\ pc' = "submit"
                  /\ UNCHANGED <<current_time_age, rec_from, h_rec>>
             ELSE /\ pc' = RecFirstPc
                  /\ rec_from' = "health"
                  /\ current_time_age' = 0
                  /\ h_rec' = RecEntered
                  /\ UNCHANGED last_health_check_age
     ELSE /\ pc' = "submit"
          /\ UNCHANGED <<last_health_check_age, current_time_age, rec_from, h_rec, h_health>>
  /\ UNCHANGED <<recorder, eng_released, eng_shutdown_calls, stop_recorder,
                 consecutive_failures, is_processing, last_activity_age,
                 waited, awaited, ab_running, q_old, q_cur, executor_shut,
                 h_unit, h_cleanup_calls, h_early_abandon>>
  /\ UNCHANGED raised
  /\ UNCHANGED h_started_after_shutdown
  /\ UNCHANGED <<fnVars, ldVars>>

\* process_text_with_timeout, lines 52-56: the unit is handed to the executor;
\* it starts at once when a worker is free and is queued otherwise.
Submit ==
  /\ pc = "submit"
  /\ is_processing' = TRUE
  /\ last_activity_age' = 0
  /\ awaited' = IF WorkerFree(ab_running) THEN "running" ELSE "queued"
  /\ waited' = 0
  /\ h_unit' = [cf_before |-> consecutive_failures, outcome |-> "none"]
  /\ pc' = "wait"
  /\ UNCHANGED <<recorder, eng_released, eng_shutdown_calls, stop_recorder,
                 consecutive_failures, last_health_check_age, current_time_age,
                 ab_running, q_old, q_cur, executor_shut, rec_from,
                 h_rec, h_cleanup_calls, h_early_abandon>>
  /\ UNCHANGED <<h_health, raised>>
  /\ UNCHANGED h_started_after_shutdown
  /\ UNCHANGED <<fnVars, ldVars>>

\* run(), lines 154-164 after a failed unit: recovery at the threshold, then sleep
AfterFailure(failures) ==
  IF ThresholdReached(failures)
  THEN /\ pc' = RecFirstPc
       /\ rec_from' = "fail"
       /\ h_rec' = RecEntered
  ELSE /\ pc' = "loop"
       /\ UNCHANGED <<rec_from, h_rec>>

\* recorder.text() returns within the deadline: lines 57-60 and 71
UnitReturns ==
  /\ pc = "wait"
  /\ awaited = "running"
  /\ awaited' = "none"
  /\ consecutive_failures' = FailuresAfterSuccess(consecutive_failures)
  /\ is_processing' = ProcessingAfterUnit
  /\ h_unit' = [h_unit EXCEPT !.outcome = "ok"]
  /\ h_rec' = [h_rec EXCEPT !.since_reset = SinceReset(consecutive_failures', @)]
  /\ pc' = "loop"
  /\ UNCHANGED <<recorder, eng_released, eng_shutdown_calls, stop_recorder,
                 last_activity_age, last_health_check_age, current_time_age,
                 waited, ab_running, q_old, q_cur, executor_shut, rec_from,
                 h_cleanup_calls, h_early_abandon>>
  /\ UNCHANGED <<h_health, raised>>
  /\ UNCHANGED h_started_after_shutdown
  /\ UNCHANGED <<fnVars, ldVars>>

\* recorder.text() raises within the deadline: lines 66-71
UnitRaises ==
  /\ pc = "wait"
  /\ awaited = "running"
  /\ awaited' = "none"
  /\ consecutive_failures' = consecutive_failures + 1
  /\ is_processing' = ProcessingAfterUnit
  /\ h_unit' = [h_unit EXCEPT !.outcome = "exc"]
  /\ AfterFailure(consecutive_failures')
  /\ raised' = Propagates("process_text_with_timeout")
  /\ UNCHANGED <<recorder, eng_released, eng_shutdown_calls, stop_recorder,
                 last_activity_age, last_health_check_age, current_time_age,
                 waited, ab_running, q_old, q_cur, executor_shut,
                 h_cleanup_calls, h_early_abandon>>
  /\ UNCHANGED h_health
  /\ UNCHANGED h_started_after_shutdown
  /\ UNCHANGED <<fnVars, ldVars>>

\* future.result raises TimeoutError: lines 62-65 and 71.  The future is not
\* cancelled: the unit stays on its worker, or in the queue.
UnitTimesOut ==
  /\ pc = "wait"
  /\ awaited # "none"
  /\ DeadlineExpired(waited)
  /\ IF awaited = "running"
     THEN ab_running' = ab_running + 1 /\ q_cur' = q_cur
     ELSE ab_running' = ab_running /\ q_cur' = QAdd(q_cur, 1)
  /\ awaited' = "none"
  /\ consecutive_failures' = consecutive_failures + 1
  /\ is_processing' = ProcessingAfterUnit
  /\ h_unit' = [h_unit EXCEPT !.outcome = "timeout"]
  /\ h_early_abandon' = (h_early_abandon \/ waited < TranscriptionTimeout)
  /\ AfterFailure(consecutive_failures')
  /\ UNCHANGED <<recorder, eng_released, eng_shutdown_calls, stop_recorder,
                 last_activity_age, last_health_check_age, current_time_age,
                 waited, q_old, executor_shut, h_cleanup_calls>>
  /\ UNCHANGED <<h_health, raised>>
  /\ UNCHANGED h_started_after_shutdown
  /\ UNCHANGED <<fnVars, ldVars>>

\* An abandoned unit ends (text() returns or raises, nobody reads the result);
\* its worker takes the oldest queued work item, if any, and calls the bound
\* method self.recorder.text that submit() was given (line 56): text() of the
\* instance that was current at submission.  Instances replaced by a
\* recovery have been shut down (line 84 comes before line 88).
AbandonedEnds ==
  /\ ab_running > 0
  /\ IF q_old > 0
     THEN /\ q_old' \in QTake(q_old)
          /\ h_started_after_shutdown' = TRUE
          /\ UNCHANGED <<q_cur, awaited, ab_running>>
     ELSE IF q_cur > 0
     THEN /\ q_cur' \in QTake(q_cur)
          /\ h_started_after_shutdown' = (h_started_after_shutdown \/ eng_shutdown_calls > 0)
          /\ UNCHANGED <<q_old, awaited, ab_running>>
     ELSE IF awaited = "queued"
     THEN /\ awaited' = "running"
          /\ ab_running' = ab_running - 1
          /\ UNCHANGED <<q_old, q_cur, h_started_after_shutdown>>
     ELSE /\ ab_running' = ab_running - 1
          /\ UNCHANGED <<q_old, q_cur, awaited, h_started_after_shutdown>>
  /\ UNCHANGED <<pc, recorder, eng_released, eng_shutdown_calls, stop_recorder,
                 consecutive_failures, is_processing, last_activity_age,
                 last_health_check_age, current_time_age, waited,
                 executor_shut, rec_from, h_unit, h_rec, h_cleanup_calls,
                 h_early_abandon>>
  /\ UNCHANGED <<h_health, raised>>
  /\ UNCHANGED <<fnVars, ldVars>>

\* recover_recorder() returns: run() goes on, or breaks out of its loop
RecoverReturns(ok) ==
  IF ok
  THEN IF rec_from = "health"
       THEN /\ last_health_check_age' = current_time_age
            /\ pc' = "submit"
       ELSE /\ UNCHANGED last_health_check_age
            /\ pc' = "loop"
  ELSE /\ UNCHANGED last_health_check_age
       /\ pc' = AfterFailedRecovery

\* recover_recorder, line 79: self.recorder.abort()
RecAbort ==
  /\ pc = "rec_abort"
  /\ \E ok \in BOOLEAN :
       IF ok
       THEN /\ pc' = "rec_clear"
            /\ UNCHANGED <<h_rec, last_health_check_age, raised>>
       ELSE /\ h_rec' = [h_rec EXCEPT !.raised = "abort", !.result = "error"]
            /\ RecoverReturns(FALSE)
            /\ raised' = Propagates("recover_recorder")
  /\ UNCHANGED <<recorder, eng_released, eng_shutdown_calls, stop_recorder,
                 consecutive_failures, is_processing, last_activity_age,
                 current_time_age, waited, awaited, ab_running, q_old, q_cur,
                 executor_shut, rec_from, h_unit, h_cleanup_calls, h_early_abandon>>
  /\ UNCHANGED h_health
  /\ UNCHANGED h_started_after_shutdown
  /\ UNCHANGED <<fnVars, ldVars>>

\* recover_recorder, lines 80-81: self.recorder.clear_audio_queue(), sleep
RecClear ==
  /\ pc = "rec_clear"
  /\ \E ok \in BOOLEAN :
       IF ok
       THEN /\ pc' = "rec_shutdown"
            /\ UNCHANGED <<h_rec, last_health_check_age, raised>>
       ELSE /\ h_rec' = [h_rec EXCEPT !.raised = "clear", !.result = "error"]
            /\ RecoverReturns(FALSE)
            /\ raised' = Propagates("recover_recorder")
  /\ UNCHANGED <<recorder, eng_released, eng_shutdown_calls, stop_recorder,
                 consecutive_failures, is_processing, last_activity_age,
                 current_time_age, waited, awaited, ab_running, q_old, q_cur,
                 executor_shut, rec_from, h_unit, h_cleanup_calls, h_early_abandon>>
  /\ UNCHANGED h_health
  /\ UNCHANGED h_started_after_shutdown
  /\ UNCHANGED <<fnVars, ldVars>>

\* recover_recorder, lines 84-85: self.recorder.shutdown(), sleep
RecShutdown ==
  /\ pc = "rec_shutdown"
  /\ eng_shutdown_calls' = eng_shutdown_calls + 1
  /\ \E ok \in BOOLEAN :
       IF ok
       THEN /\ eng_released' = TRUE
            /\ pc' = "rec_init"
            /\ UNCHANGED <<h_rec, last_health_check_age, raised>>
       ELSE /\ UNCHANGED eng_released
            /\ h_rec' = [h_rec EXCEPT !.raised = "shutdown", !.result = "error"]
            /\ RecoverReturns(FALSE)
            /\ raised' = Propagates("recover_recorder")
  /\ UNCHANGED <<recorder, stop_recorder,
                 consecutive_failures, is_processing, last_activity_age,
                 current_time_age, waited, awaited, ab_running, q_old, q_cur,
                 executor_shut, rec_from, h_unit, h_cleanup_calls, h_early_abandon>>
  /\ UNCHANGED h_health
  /\ UNCHANGED h_started_after_shutdown
  /\ UNCHANGED <<fnVars, ldVars>>

\* recover_recorder, line 88: return self.initialize_recorder(), called once.
\* A new instance replaces the current one: the queued units of the old
\* instance stay bound to it.
RecInit ==
  /\ pc = "rec_init"
  /\ \E ok \in BOOLEAN :
       IF ok
       THEN /\ recorder' = "Engine"
            /\ eng_released' = FALSE
            /\ eng_shutdown_calls' = 0
            /\ q_old' = QAdd(q_old, q_cur)
            /\ q_cur' = 0
            /\ consecutive_failures' = FailuresAfterInit(consecutive_failures)
            /\ h_rec' = [h_rec EXCEPT !.attempts = @ + 1, !.result = "ok",
                           !.since_reset = SinceReset(consecutive_failures', @)]
            /\ RecoverReturns(TRUE)
            /\ UNCHANGED raised
       ELSE /\ UNCHANGED <<recorder, eng_released, eng_shutdown_calls, q_old, q_cur>>
            /\ consecutive_failures' = consecutive_failures + 1
            /\ h_rec' = [h_rec EXCEPT !.attempts = @ + 1, !.result = "error"]
            /\ RecoverReturns(FALSE)
            /\ raised' = Propagates("initialize_recorder")
  /\ UNCHANGED <<stop_recorder, is_processing, last_activity_age,
                 current_time_age, waited, awaited, ab_running,
                 executor_shut, rec_from, h_unit, h_cleanup_calls, h_early_abandon>>
  /\ UNCHANGED h_health
  /\ UNCHANGED h_started_after_shutdown
  /\ UNCHANGED <<fnVars, ldVars>>

\* cleanup(), lines 173-178: recorder.shutdown(), then executor.shutdown(wait=True),
\* in one try block: an exception of the first skips the second.
Cleanup ==
  /\ pc = "cleanup"
  /\ h_cleanup_calls' = h_cleanup_calls + 1
  /\ IF recorder # "None"
     THEN /\ eng_shutdown_calls' = eng_shutdown_calls + 1
          /\ \E ok \in BOOLEAN :
               IF ok
               THEN /\ eng_released' = TRUE
                    /\ executor_shut' = TRUE
                    /\ pc' = "cleanup_join"
                    /\ UNCHANGED raised
               ELSE /\ UNCHANGED <<eng_released, executor_shut>>
                    /\ pc' = "done"
                    /\ raised' = Propagates("cleanup")
     ELSE /\ UNCHANGED <<eng_shutdown_calls, eng_released>>
          /\ executor_shut' = TRUE
          /\ pc' = "cleanup_join"
          /\ UNCHANGED raised
  /\ UNCHANGED <<recorder, stop_recorder, consecutive_failures, is_processing,
                 last_activity_age, last_health_check_age, current_time_age,
                 waited, awaited, ab_running, q_old, q_cur, rec_from,
                 h_unit, h_rec, h_early_abandon>>
  /\ UNCHANGED h_health
  /\ UNCHANGED h_started_after_shutdown
  /\ UNCHANGED <<fnVars, ldVars>>

\* executor.shutdown(wait=True) returns when every worker thread has ended:
\* no unit is running and the queue is empty.
CleanupJoin ==
  /\ pc = "cleanup_join"
  /\ ab_running = 0 /\ q_old = 0 /\ q_cur = 0 /\ awaited = "none"
  /\ pc' = "done"
  /\ UNCHANGED <<recorder, eng_released, eng_shutdown_calls, stop_recorder,
                 consecutive_failures, is_processing, last_activity_age,
                 last_health_check_age, current_time_age, waited, awaited,
                 ab_running, q_old, q_cur, executor_shut, rec_from,
                 h_unit, h_rec, h_cleanup_calls, h_early_abandon>>
  /\ UNCHANGED <<h_health, raised>>
  /\ UNCHANGED h_started_after_shutdown
  /\ UNCHANGED <<fnVars, ldVars>>

\* ------------------------------------------------------------ enhanced_recorder_thread
\* recorder_thread_patch.py does not compile as it stands ("nonlocal recorder"
\* in initialize_recorder_with_retry, while the enclosing function declares
\* "global recorder"); it is modelled as it reads, with recorder the one
\* variable shared by all its functions.

\* h_fn after an outcome that is not a unit timeout
NoTimeoutRun == [timeouts |-> 0, recoveries |-> 0, base |-> 0]

\* h_fn_rec when recover_recorder() is called
RecoveryCalled == [returned_ok |-> FALSE, since_unit |-> Min(h_fn_rec.since_unit + 1, 2)]

InitFn ==
  /\ fn_pc = "init"
  /\ fn_recorder = "None"
  /\ fn_stop_recorder = FALSE
  /\ fn_consecutive_failures = 0
  /\ fn_last_activity_age = 0
  /\ fn_current_time_age = 0
  /\ fn_waited = 0
  /\ fn_awaited = "none"
  /\ fn_ab_running = 0
  /\ fn_attempt = 0
  /\ fn_rec_from = "start"
  /\ fn_tmp = 0
  /\ fn_ret = "none"
  /\ fn_live_engines = 0
  /\ fn_executor_shut = FALSE
  /\ h_fn = NoTimeoutRun
  /\ h_fn_rec = [returned_ok |-> FALSE, since_unit |-> 0]

\* ------------------------------------------------------------ LanguageDetector
\* The classifier (SpeechBrain) is opaque: classify_batch returns a language
\* code and a confidence, or raises.  Confidences and thresholds are floats
\* in the code and tenths here.

\* language codes the classifier returns, confidences, thresholds and
\* expected languages the operations are applied to
RawCodes == {"en", "it", "ja"}
Confidences == {0, 5, 7, 9, 10}
Thresholds == {0, 5, DefaultThreshold, 10}
ExpectedLanguages == {"en", "it"}

\* detect_language, lines 71-79: lang_mapping.get(lang_code, lang_code)
lang_mapping == [c \in {"it", "en", "es", "fr", "de"} |-> c]
MappedLang(code) == IF code \in DOMAIN lang_mapping THEN lang_mapping[code] ELSE code

\* validate_transcription_language, lines 101-112; a threshold of 0 is false
\* in "if confidence_threshold and ..."
validate_transcription_language(expected, detected, threshold, last_confidence) ==
  IF detected = "None" THEN TRUE
  ELSE IF threshold # 0 /\ last_confidence < threshold THEN TRUE
  ELSE IF detected # expected THEN FALSE
  ELSE TRUE

\* __init__, lines 19-38: the model is loaded, or lang_id stays None
InitLd ==
  /\ ld_loaded \in BOOLEAN
  /\ ld_last_confidence = 0
  /\ ld_detected = "None"
  /\ ld_confidence = 0
  /\ ld_expected = "None"
  /\ ld_threshold = 0
  /\ ld_valid = "none"

Init == InitRM /\ InitFn /\ InitLd

\* recover_recorder(): "if recorder:" chooses the first step
FnRecFirstPc == IF fn_recorder # "None" THEN "rec_abort" ELSE "init"

\* stop_recorder is set from outside
FnStop ==
  /\ fn_pc # "done"
  /\ ~fn_stop_recorder
  /\ fn_stop_recorder' = TRUE
  /\ UNCHANGED <<fn_pc, fn_recorder, fn_consecutive_failures,
                 fn_last_activity_age, fn_current_time_age, fn_waited, fn_awaited,
                 fn_ab_running, fn_attempt, fn_rec_from, fn_tmp, fn_ret,
                 fn_live_engines, fn_executor_shut, h_fn>>
  /\ UNCHANGED h_fn_rec
  /\ UNCHANGED <<rmVars, ldVars>>

\* Ten seconds pass.
FnTick ==
  /\ fn_pc # "done"
  /\ ~(fn_pc = "wait" /\ fn_waited >= FnTranscriptionTimeout)
  /\ fn_last_activity_age' = Older(fn_last_activity_age, FnTranscriptionTimeout + 1)
  /\ fn_current_time_age' = IF fn_rec_from = "stall" /\ fn_pc \in {"rec_abort", "rec_clear", "init"}
                            THEN Older(fn_current_time_age, FnTranscriptionTimeout + 1)
                            ELSE fn_current_time_age
  /\ fn_waited' = IF fn_pc = "wait" THEN fn_waited + 1 ELSE fn_waited
  /\ UNCHANGED <<fn_pc, fn_recorder, fn_stop_recorder, fn_consecutive_failures,
                 fn_awaited, fn_ab_running, fn_attempt, fn_rec_from, fn_tmp, fn_ret,
                 fn_live_engines, fn_executor_shut, h_fn>>
  /\ UNCHANGED h_fn_rec
  /\ UNCHANGED <<rmVars, ldVars>>

\* initialize_recorder_with_retry, lines 29-39: one attempt of the loop.  The
\* caller goes on: lines 106-111 at the start, lines 120-131 and 152-157 after
\* a recovery.  The instance that recorder named before is not shut down.
FnInitAttempt ==
  /\ fn_pc = "init"
  /\ \E ok \in BOOLEAN :
       IF ok
       THEN /\ fn_recorder' = "Engine"
            /\ fn_live_engines' = Min(fn_live_engines + 1, MaxLive)
            /\ fn_attempt' = 0
            /\ fn_last_activity_age' = IF fn_rec_from = "stall" THEN fn_current_time_age
                                       ELSE fn_last_activity_age
            /\ fn_pc' = "loop"
            /\ h_fn_rec' = [h_fn_rec EXCEPT !.returned_ok = (fn_rec_from # "start")]
       ELSE /\ UNCHANGED <<fn_recorder, fn_live_engines, fn_last_activity_age, h_fn_rec>>
            /\ IF fn_attempt + 1 < MaxInitRetries
               THEN fn_attempt' = fn_attempt + 1 /\ fn_pc' = "init"
               ELSE fn_attempt' = 0 /\ fn_pc' = IF fn_rec_from = "start" THEN "done" ELSE "cleanup"
  /\ UNCHANGED <<fn_stop_recorder, fn_consecutive_failures, fn_current_time_age,
                 fn_waited, fn_awaited, fn_ab_running, fn_rec_from, fn_tmp, fn_ret,
                 fn_executor_shut, h_fn>>
  /\ UNCHANGED <<rmVars, ldVars>>

\* main loop, lines 114-124: the loop condition and the stall check
FnLoopTop ==
  /\ fn_pc = "loop"
  /\ IF fn_stop_recorder
     THEN /\ fn_pc' = "cleanup"
          /\ h_fn_rec' = [h_fn_rec EXCEPT !.returned_ok = FALSE]
          /\ UNCHANGED <<fn_rec_from, fn_current_time_age>>
     ELSE IF fn_last_activity_age > FnTranscriptionTimeout
     THEN /\ fn_pc' = FnRecFirstPc
          /\ fn_rec_from' = "stall"
          /\ fn_current_time_age' = 0
          /\ h_fn_rec' = RecoveryCalled
     ELSE /\ fn_pc' = "check_failures"
          /\ h_fn_rec' = [h_fn_rec EXCEPT !.returned_ok = FALSE]
          /\ UNCHANGED <<fn_rec_from, fn_current_time_age>>
  /\ UNCHANGED <<fn_recorder, fn_stop_recorder, fn_consecutive_failures,
                 fn_last_activity_age, fn_waited, fn_awaited,
                 fn_ab_running, fn_attempt, fn_tmp, fn_ret,
                 fn_live_engines, fn_executor_shut, h_fn>>
  /\ UNCHANGED <<rmVars, ldVars>>

\* main loop, lines 126-136: the failure check, else executor.submit
FnCheckFailures ==
  /\ fn_pc = "check_failures"
  /\ IF fn_consecutive_failures >= MaxConsecutiveFailures
     THEN /\ fn_pc' = FnRecFirstPc
          /\ fn_rec_from' = "threshold"
          /\ h_fn_rec' = RecoveryCalled
          /\ UNCHANGED <<fn_awaited, fn_waited>>
     ELSE /\ fn_awaited' = IF fn_ab_running < MaxWorkers THEN "running" ELSE "queued"
          /\ fn_waited' = 0
          /\ fn_pc' = "wait"
          /\ h_fn_rec' = [returned_ok |-> FALSE, since_unit |-> 0]
          /\ UNCHANGED fn_rec_from
  /\ UNCHANGED <<fn_recorder, fn_stop_recorder, fn_consecutive_failures,
                 fn_last_activity_age, fn_current_time_age,
                 fn_ab_running, fn_attempt, fn_tmp, fn_ret,
                 fn_live_engines, fn_executor_shut, h_fn>>
  /\ UNCHANGED <<rmVars, ldVars>>

\* transcribe_with_timeout returns True within the deadline: line 136.  The
\* counter is not written here.
FnUnitReturnsTrue ==
  /\ fn_pc = "wait"
  /\ fn_awaited = "running"
  /\ fn_awaited' = "none"
  /\ h_fn' = NoTimeoutRun
  /\ fn_pc' = "loop"
  /\ UNCHANGED <<fn_recorder, fn_stop_recorder, fn_consecutive_failures,
                 fn_last_activity_age, fn_current_time_age, fn_waited,
                 fn_ab_running, fn_attempt, fn_rec_from, fn_tmp, fn_ret,
                 fn_live_engines, fn_executor_shut>>
  /\ UNCHANGED h_fn_rec
  /\ UNCHANGED <<rmVars, ldVars>>

\* transcribe_with_timeout returns False (text() raised): lines 138-139, the
\* read of "consecutive_failures += 1"
FnUnitReturnsFalse ==
  /\ fn_pc = "wait"
  /\ fn_awaited = "running"
  /\ fn_awaited' = "none"
  /\ h_fn' = NoTimeoutRun
  /\ fn_tmp' = fn_consecutive_failures
  /\ fn_ret' = "unit_false"
  /\ fn_pc' = "inc_write"
  /\ UNCHANGED <<fn_recorder, fn_stop_recorder, fn_consecutive_failures,
                 fn_last_activity_age, fn_current_time_age, fn_waited,
                 fn_ab_running, fn_attempt, fn_rec_from,
                 fn_live_engines, fn_executor_shut>>
  /\ UNCHANGED h_fn_rec
  /\ UNCHANGED <<rmVars, ldVars>>

\* future.result raises FutureTimeoutError: lines 142-150.  future.cancel()
\* removes a unit that is still queued and leaves a running one on its worker.
FnUnitTimesOut ==
  /\ fn_pc = "wait"
  /\ fn_awaited # "none"
  /\ fn_waited >= FnTranscriptionTimeout
  /\ fn_ab_running' = IF fn_awaited = "running" THEN fn_ab_running + 1 ELSE fn_ab_running
  /\ fn_awaited' = "none"
  /\ h_fn' = [h_fn EXCEPT !.timeouts = Min(@ + 1, MaxConsecutiveFailures + 1),
                          !.base = IF h_fn.timeouts = 0 THEN fn_consecutive_failures ELSE @]
  /\ fn_tmp' = fn_consecutive_failures
  /\ fn_ret' = "timeout"
  /\ fn_pc' = "inc_write"
  /\ UNCHANGED <<fn_recorder, fn_stop_recorder, fn_consecutive_failures,
                 fn_last_activity_age, fn_current_time_age, fn_waited,
                 fn_attempt, fn_rec_from,
                 fn_live_engines, fn_executor_shut>>
  /\ UNCHANGED h_fn_rec
  /\ UNCHANGED <<rmVars, ldVars>>

\* the write of "consecutive_failures += 1" in the loop's thread (lines 98, 139,
\* 144), and the statement after it
FnIncWrite ==
  /\ fn_pc = "inc_write"
  /\ fn_consecutive_failures' = fn_tmp + 1
  /\ fn_ret' = "none"
  /\ fn_tmp' = 0
  /\ IF fn_ret = "timeout"
     THEN /\ fn_pc' = FnRecFirstPc
          /\ fn_rec_from' = "timeout"
          /\ h_fn_rec' = RecoveryCalled
          /\ h_fn' = [h_fn EXCEPT !.recoveries = Min(@ + 1, MaxConsecutiveFailures + 1)]
     ELSE /\ fn_pc' = IF fn_ret = "rec_exc" THEN "cleanup" ELSE "loop"
          /\ UNCHANGED <<fn_rec_from, h_fn, h_fn_rec>>
  /\ UNCHANGED <<fn_recorder, fn_stop_recorder,
                 fn_last_activity_age, fn_current_time_age, fn_waited, fn_awaited,
                 fn_ab_running, fn_attempt,
                 fn_live_engines, fn_executor_shut>>
  /\ UNCHANGED <<rmVars, ldVars>>

\* recover_recorder, line 90: recorder.abort(); lines 96-99 when it raises
FnRecAbort ==
  /\ fn_pc = "rec_abort"
  /\ \E ok \in BOOLEAN :
       IF ok
       THEN /\ fn_pc' = "rec_clear"
            /\ UNCHANGED <<fn_tmp, fn_ret>>
       ELSE /\ fn_tmp' = fn_consecutive_failures
            /\ fn_ret' = "rec_exc"
            /\ fn_pc' = "inc_write"
  /\ UNCHANGED <<fn_recorder, fn_stop_recorder, fn_consecutive_failures,
                 fn_last_activity_age, fn_current_time_age, fn_waited, fn_awaited,
                 fn_ab_running, fn_attempt, fn_rec_from,
                 fn_live_engines, fn_executor_shut, h_fn>>
  /\ UNCHANGED h_fn_rec
  /\ UNCHANGED <<rmVars, ldVars>>

\* recover_recorder, lines 91-94: recorder.clear_audio_queue(), sleep, then
\* initialize_recorder_with_retry()
FnRecClear ==
  /\ fn_pc = "rec_clear"
  /\ \E ok \in BOOLEAN :
       IF ok
       THEN /\ fn_pc' = "init"
            /\ UNCHANGED <<fn_tmp, fn_ret>>
       ELSE /\ fn_tmp' = fn_consecutive_failures
            /\ fn_ret' = "rec_exc"
            /\ fn_pc' = "inc_write"
  /\ UNCHANGED <<fn_recorder, fn_stop_recorder, fn_consecutive_failures,
                 fn_last_activity_age, fn_current_time_age, fn_waited, fn_awaited,
                 fn_ab_running, fn_attempt, fn_rec_from,
                 fn_live_engines, fn_executor_shut, h_fn>>
  /\ UNCHANGED h_fn_rec
  /\ UNCHANGED <<rmVars, ldVars>>

\* An abandoned unit ends; its worker takes the queued unit, if any.
FnAbandonedEnds ==
  /\ fn_ab_running > 0
  /\ fn_ab_running' = fn_ab_running - 1
  /\ fn_awaited' = IF fn_awaited = "queued" THEN "running" ELSE fn_awaited
  /\ UNCHANGED <<fn_pc, fn_recorder, fn_stop_recorder, fn_consecutive_failures,
                 fn_last_activity_age, fn_current_time_age, fn_waited,
                 fn_attempt, fn_rec_from, fn_tmp, fn_ret,
                 fn_live_engines, fn_executor_shut, h_fn>>
  /\ UNCHANGED h_fn_rec
  /\ UNCHANGED <<rmVars, ldVars>>

\* process_text, lines 41-70: the engine calls it with a finished sentence, in
\* a worker's thread, while text() runs there (in an awaited or in an
\* abandoned unit).  It writes the loop's counter and timestamp.
FnCallback ==
  /\ fn_ab_running > 0 \/ fn_awaited = "running"
  /\ \E ok \in BOOLEAN :
       IF ok
       THEN /\ fn_consecutive_failures' = 0
            /\ fn_last_activity_age' = 0
       ELSE /\ fn_consecutive_failures < MaxCallbackFailures
            /\ fn_consecutive_failures' = fn_consecutive_failures + 1
            /\ UNCHANGED fn_last_activity_age
  /\ h_fn' = NoTimeoutRun
  /\ UNCHANGED <<fn_pc, fn_recorder, fn_stop_recorder,
                 fn_current_time_age, fn_waited, fn_awaited,
                 fn_ab_running, fn_attempt, fn_rec_from, fn_tmp, fn_ret,
                 fn_live_engines, fn_executor_shut>>
  /\ h_fn_rec' = [h_fn_rec EXCEPT !.returned_ok = FALSE]
  /\ UNCHANGED <<rmVars, ldVars>>

\* the finally clause, lines 161-168: recorder.shutdown(), then
\* executor.shutdown(wait=False), in one try block
FnCleanup ==
  /\ fn_pc = "cleanup"
  /\ IF fn_recorder # "None"
     THEN \E ok \in BOOLEAN :
            IF ok
            THEN /\ fn_live_engines' \in (IF fn_live_engines = MaxLive
                                          THEN {MaxLive, MaxLive - 1}
                                          ELSE {fn_live_engines - 1})
                 /\ fn_executor_shut' = TRUE
            ELSE UNCHANGED <<fn_live_engines, fn_executor_shut>>
     ELSE /\ fn_executor_shut' = TRUE
          /\ UNCHANGED fn_live_engines
  /\ fn_pc' = "done"
  /\ UNCHANGED <<fn_recorder, fn_stop_recorder, fn_consecutive_failures,
                 fn_last_activity_age, fn_current_time_age, fn_waited, fn_awaited,
                 fn_ab_running, fn_attempt, fn_rec_from, fn_tmp, fn_ret, h_fn>>
  /\ UNCHANGED h_fn_rec
  /\ UNCHANGED <<rmVars, ldVars>>

\* the steps of the thread that executes enhanced_recorder_thread()
FnLoopStep ==
  \/ FnInitAttempt \/ FnLoopTop \/ FnCheckFailures
  \/ FnUnitReturnsTrue \/ FnUnitReturnsFalse \/ FnUnitTimesOut \/ FnIncWrite
  \/ FnRecAbort \/ FnRecClear \/ FnCleanup

NextFn ==
  \/ FnStop \/ FnTick \/ FnInitAttempt \/ FnLoopTop \/ FnCheckFailures
  \/ FnUnitReturnsTrue \/ FnUnitReturnsFalse \/ FnUnitTimesOut \/ FnIncWrite
  \/ FnRecAbort \/ FnRecClear \/ FnAbandonedEnds \/ FnCallback \/ FnCleanup

SpecFn == Init /\ [][NextFn]_vars

\* ------------------------------------------------------------ LanguageDetector, operations
\* detect_language, lines 40-85.  It returns (None, 0.0) when no model is
\* loaded or when the classification raises, and stores the confidence in
\* self.last_confidence when it succeeds.  The caller keeps the returned
\* pair as the detection it will validate, or goes on holding an earlier one
\* (the detection of another utterance).
LdDetect ==
  /\ \E ok \in BOOLEAN, code \in RawCodes, confidence \in Confidences, keep \in BOOLEAN :
       /\ IF ld_loaded /\ ok
          THEN /\ ld_last_confidence' = confidence
               /\ IF keep
                  THEN ld_detected' = MappedLang(code) /\ ld_confidence' = confidence
                  ELSE UNCHANGED <<ld_detected, ld_confidence>>
          ELSE /\ UNCHANGED ld_last_confidence
               /\ IF keep
                  THEN ld_detected' = "None" /\ ld_confidence' = 0
                  ELSE UNCHANGED <<ld_detected, ld_confidence>>
  /\ ld_valid' = "none"
  /\ UNCHANGED <<ld_loaded, ld_expected, ld_threshold>>
  /\ UNCHANGED <<rmVars, fnVars>>

\* validate_transcription_language, lines 87-112, called with the language of
\* the detection the caller holds
LdValidate ==
  /\ \E expected \in ExpectedLanguages, threshold \in Thresholds :
       /\ ld_expected' = expected
       /\ ld_threshold' = threshold
       /\ ld_valid' = IF validate_transcription_language(expected, ld_detected,
                                                         threshold, ld_last_confidence)
                      THEN "True" ELSE "False"
  /\ UNCHANGED <<ld_loaded, ld_last_confidence, ld_detected, ld_confidence>>
  /\ UNCHANGED <<rmVars, fnVars>>

NextLd == LdDetect \/ LdValidate

SpecLd == Init /\ [][NextLd]_vars

\* ------------------------------------------------------------ health_check alone
\* health_check() applied to any supervisor state: is_processing, the age of
\* last_activity_time and consecutive_failures are drawn from bounded sets.
InitHealth ==
  /\ pc = "health_check"
  /\ recorder = "Engine"
  /\ is_processing \in BOOLEAN
  /\ last_activity_age \in 0 .. TranscriptionTimeout + 1
  /\ consecutive_failures \in 0 .. MaxFailuresInput
  /\ eng_released = FALSE
  /\ eng_shutdown_calls = 0
  /\ stop_recorder = FALSE
  /\ last_health_check_age = 0
  /\ current_time_age = 0
  /\ waited = 0
  /\ awaited = "none"
  /\ ab_running = 0
  /\ q_old = 0
  /\ q_cur = 0
  /\ executor_shut = FALSE
  /\ rec_from = "none"
  /\ h_unit = [cf_before |-> 0, outcome |-> "none"]
  /\ h_rec = [since_reset |-> 0, attempts |-> 0, raised |-> "none", result |-> "none"]
  /\ h_cleanup_calls = 0
  /\ h_early_abandon = FALSE
  /\ h_health = [result |-> "none", abandoned |-> FALSE]
  /\ raised = FALSE
  /\ h_started_after_shutdown = FALSE
  /\ InitFn
  /\ InitLd

\* health_check(), lines 94-108: it reads the state and returns; it assigns
\* no attribute
HealthCheckCall ==
  /\ pc = "health_check"
  /\ h_health' = HealthEvaluated
  /\ pc' = "health_checked"
  /\ UNCHANGED <<recorder, eng_released, eng_shutdown_calls, stop_recorder,
                 consecutive_failures, is_processing, last_activity_age,
                 last_health_check_age, current_time_age, waited, awaited,
                 ab_running, q_old, q_cur, executor_shut, rec_from,
                 h_unit, h_rec, h_cleanup_calls, h_early_abandon, raised>>
  /\ UNCHANGED h_started_after_shutdown
  /\ UNCHANGED <<fnVars, ldVars>>

NextHealth == HealthCheckCall

SpecHealth == InitHealth /\ [][NextHealth]_vars

\* the steps of the thread that executes run()
RunStep ==
  \/ InitialInit \/ LoopTop \/ Submit \/ UnitReturns \/ UnitRaises
  \/ UnitTimesOut \/ RecAbort \/ RecClear \/ RecShutdown \/ RecInit
  \/ Cleanup \/ CleanupJoin

Next == RunStep \/ Stop \/ Tick \/ AbandonedEnds

Spec == Init /\ [][Next]_vars

\* The thread of run() is scheduled and time passes; nothing makes the engine
\* return from text(), so AbandonedEnds has no fairness.
FairSpec == Spec /\ WF_vars(RunStep) /\ WF_vars(Tick)

\* ------------------------------------------------------------ properties

\* units handed to the executor of RecorderManager that have not ended
InFlight == ab_running + q_old + q_cur + (IF awaited # "none" THEN 1 ELSE 0)

\* run() has left its loop
Terminal == pc \in {"cleanup", "cleanup_join", "done"}

\* C1: once stop() has been called, run() finishes: it leaves its loop, calls
\* cleanup and returns, whatever the engine and the worker pool are doing.
C1_StopEndsRun == stop_recorder ~> (pc = "done")

\* C2: after a unit of work that completed successfully the failure counter
\* is 0, whatever it was when the unit was submitted.
C2_SuccessResetsFailures == (h_unit.outcome = "ok") => (consecutive_failures = 0)

\* a successful unit that was submitted with two failures counted
C2_Witness == h_unit.outcome = "ok" /\ h_unit.cf_before = 2 /\ consecutive_failures = 0

\* C3 as stated: the failure counter never exceeds max_consecutive_failures,
\* and no second recovery is started before the counter was reset.
C3_NeverAboveThreshold ==
  /\ consecutive_failures <= MaxConsecutiveFailures
  /\ h_rec.since_reset <= 1

\* C3 amended: up to the start of a recovery the counter is at most the
\* threshold, and a unit is submitted only below it; the counter is above the
\* threshold (by one) only after the one initialize_recorder() of a recovery
\* failed, which ends the loop; no second recovery is started before the
\* counter was reset.
C3_AtThresholdOneRecovery ==
  /\ consecutive_failures <= MaxConsecutiveFailures + 1
  /\ (consecutive_failures > MaxConsecutiveFailures)
       => (Terminal /\ h_rec.result = "error" /\ h_rec.attempts = 1)
  /\ (pc \in {"loop", "submit", "wait"}) => (consecutive_failures < MaxConsecutiveFailures)
  /\ (pc \in RecPcs /\ rec_from = "fail") => (consecutive_failures = MaxConsecutiveFailures)
  /\ h_rec.since_reset <= 1

\* a second recovery at the threshold, after the first one reset the counter
C3_Witness ==
  /\ pc = "rec_init" /\ q_old > 0
  /\ consecutive_failures = MaxConsecutiveFailures /\ h_rec.since_reset = 1

\* C4: three unit timeouts in a row, counted from 0 with a threshold of 3,
\* make the timeout handler call recover_recorder() once.
C4_ThreeTimeoutsOneRecovery ==
  (fn_pc = "loop" /\ h_fn.base = 0 /\ h_fn.timeouts = MaxConsecutiveFailures)
    => (h_fn.recoveries = 1)

\* C5: after a failed recovery run() is out of its loop (no unit is submitted,
\* no recovery is started) and cleanup is called once.
C5_FailedRecoveryEndsLoop ==
  (h_rec.result = "error") =>
    /\ Terminal
    /\ h_cleanup_calls = (IF pc = "cleanup" THEN 0 ELSE 1)

\* run() has returned after a recovery whose initialize_recorder() failed
C5_Witness ==
  /\ pc = "done" /\ h_rec.result = "error" /\ h_rec.attempts = 1
  /\ h_cleanup_calls = 1

\* C6: recover_recorder() returns an error for a failed initialisation only
\* after MaxInitRetries attempts.
C6_InitRetried ==
  (h_rec.result = "error" /\ h_rec.raised = "none") => (h_rec.attempts = MaxInitRetries)

\* C7: an exception of abort(), clear_audio_queue() or shutdown() does not end
\* recover_recorder(): the engine is initialised again all the same.
C7_StepsFaultTolerant ==
  (h_rec.result \in {"ok", "error"} /\ h_rec.raised # "none") => (h_rec.attempts >= 1)

\* C8: when run() has returned, cleanup has run, the executor is shut down and
\* so is the engine, if there is one.
C8_ReleasedOnReturn ==
  (pc = "done") =>
    /\ h_cleanup_calls >= 1
    /\ executor_shut
    /\ (recorder # "None") => (eng_shutdown_calls >= 1)

\* C9 as stated: at most one unit is in flight, abandoned ones counted.
C9_OneInFlight == InFlight <= 1

\* C9 amended: the loop waits on at most one unit and submits the next one
\* only when that unit has ended or its deadline has expired; units given up
\* at their deadline may still be running or queued then, and at most
\* MaxWorkers units run at a time.
C9_OneAwaited ==
  /\ ~h_early_abandon
  /\ (awaited # "none") <=> (pc = "wait")
  /\ ab_running + (IF awaited = "running" THEN 1 ELSE 0) <= MaxWorkers
  /\ (q_old + q_cur > 0 \/ awaited = "queued") => (ab_running = MaxWorkers)

\* a unit is running while a unit given up before it is still running
C9_Witness == pc = "wait" /\ awaited = "running" /\ ab_running = 1

\* C11: a unit that is still running after its deadline is flagged by the
\* health check: an evaluation of health_check() made while a unit that was
\* given up at its deadline is still running or queued returns unhealthy.
C11_StallDetected == h_health.abandoned => (h_health.result = "unhealthy")

\* C10 as stated: no unit is running on the pool while recover_recorder() runs.
C10_NoUnitDuringRecovery == (pc \in RecPcs) => (InFlight = 0)

\* C10 amended: recover_recorder() never runs while the loop waits on a unit
\* (process_text_with_timeout has returned and cleared is_processing); units
\* that timed out and were given up may still be running.
C10_NoAwaitedUnitDuringRecovery ==
  (pc \in RecPcs) => (~is_processing /\ awaited = "none")

\* recover_recorder() runs while an abandoned unit is still running
C10_Witness == pc \in RecPcs /\ ab_running > 0 /\ ~is_processing

\* C12: shutdown() is invoked at most once on each engine instance, over any
\* recoveries followed by cleanup.
C12_ShutdownOnce == eng_shutdown_calls <= 1

\* C13: no exception raised by the engine leaves run(): whatever engine calls
\* fail, run() goes on or returns normally.
C13_NoExceptionLeavesRun == ~raised

\* run() has returned after a unit raised, shutdown() raised in the recovery
\* and shutdown() raised again in cleanup
C13_Witness ==
  /\ pc = "done" /\ ~raised
  /\ h_unit.outcome = "exc" /\ h_rec.raised = "shutdown"
  /\ h_cleanup_calls = 1 /\ ~executor_shut

\* the attributes of RecorderManager, last_activity_time as its age
SupervisorState ==
  <<recorder, stop_recorder, consecutive_failures, is_processing,
    last_activity_age, executor_shut>>

\* C14: health_check() returns unhealthy exactly when a unit is being
\* processed and last_activity_time is older than transcription_timeout, or
\* the failure counter is at least max_consecutive_failures; it returns
\* healthy otherwise, and the call changes no attribute.
C14_HealthCheckPure ==
  /\ [](pc = "health_checked" =>
          (h_health.result = "unhealthy"
             <=> \/ is_processing /\ last_activity_age > TranscriptionTimeout
                 \/ consecutive_failures >= MaxConsecutiveFailures))
  /\ [](pc = "health_checked" => h_health.result \in {"healthy", "unhealthy"})
  /\ [][pc # pc' => SupervisorState' = SupervisorState]_vars

\* health_check() has returned unhealthy for a stall alone
C14_Witness ==
  /\ pc = "health_checked" /\ h_health.result = "unhealthy"
  /\ is_processing /\ last_activity_age > TranscriptionTimeout
  /\ consecutive_failures = 0

\* C15: validate_transcription_language returns False exactly when the
\* detection being validated has a language, its confidence is at least the
\* threshold and its language differs from the expected one, whatever
\* detect_language calls were made on the detector before.
C15_ConfidentMismatchOnly ==
  (ld_valid # "none") =>
    (ld_valid = "False" <=> /\ ld_detected # "None"
                            /\ ld_confidence >= ld_threshold
                            /\ ld_detected # ld_expected)

\* C16: in enhanced_recorder_thread, when recover_recorder() has returned
\* True the failure counter is 0, and recover_recorder() is not called a
\* second time before a unit has been submitted.
C16_RecoveryResetsFailures ==
  /\ h_fn_rec.returned_ok => (fn_consecutive_failures = 0)
  /\ h_fn_rec.since_unit <= 1

\* C17: at most one engine instance is live (constructed and not shut down)
\* in each implementation: enhanced_recorder_thread never holds two, and
\* RecorderManager constructs a new instance in a recovery only after
\* shutdown() has returned on the previous one.
C17_OneLiveEngine ==
  /\ fn_live_engines <= 1
  /\ (pc = "rec_init" /\ recorder # "None") => eng_released

\* C18: in enhanced_recorder_thread, consecutive_failures and
\* last_activity_time are written by the loop's own thread only: every step
\* that changes the counter or renews the timestamp is a step of the loop.
C18_SingleWriter ==
  [][(\/ fn_consecutive_failures' # fn_consecutive_failures
      \/ fn_last_activity_age' < fn_last_activity_age) => FnLoopStep]_vars

\* C19 as stated: a submitted unit never waits in the queue of the executor.
C19_NeverWaitsForAbandoned == awaited # "queued"

\* C19 amended: a submitted unit runs at once while fewer than MaxWorkers
\* abandoned units are still running, so one abandoned unit never blocks it;
\* it waits in the queue only while MaxWorkers abandoned units hold all the
\* workers.
C19_WaitsOnlyWhenAllWorkersHeld ==
  (pc = "wait") =>
    /\ (awaited = "queued") <=> (ab_running = MaxWorkers)
    /\ (awaited = "running") <=> (ab_running < MaxWorkers)

\* a unit just submitted is running next to an abandoned one
C19_Witness ==
  pc = "wait" /\ waited = 0 /\ awaited = "running" /\ ab_running = MaxWorkers - 1

\* C20: every evaluation of health_check() made by the loop of run() returns
\* healthy: where the loop evaluates it, is_processing is false and the
\* failure counter is below the threshold, so the health check never starts
\* a recovery.
C20_HealthCheckAlwaysHealthy ==
  /\ h_health.result # "unhealthy"
  /\ rec_from # "health"
  /\ (pc = "loop") => (~is_processing /\ consecutive_failures < MaxConsecutiveFailures)

\* the health check was evaluated, and found healthy, with two failures
\* counted and a timed-out unit still running
C20_Witness ==
  /\ h_health.result = "healthy" /\ h_health.abandoned
  /\ pc = "submit" /\ last_health_check_age = 0
  /\ consecutive_failures = MaxConsecutiveFailures - 1

\* C21: no unit of work begins text() on an engine instance after shutdown()
\* has been called on that instance: a unit still queued when a recovery or
\* cleanup shuts its engine down never starts running.
C21_NoStartAfterShutdown == ~h_started_after_shutdown
=============================================================================
